---- MODULE Spec2Model ----
(***************************************************************************)
(* Model of medsurg.py: a Streamlit inventory / point-of-sale script that  *)
(* keeps three worksheets (Inventory, Invoices, Invoice_Items) of a remote *)
(* spreadsheet and a per-session cart (st.session_state.cart).             *)
(*                                                                         *)
(* Every worksheet is modelled by the sequence of its data rows; the       *)
(* header row that init_db writes is counted by HEADER_ROWS.  Every        *)
(* session runs its script synchronously, so a session is at one place     *)
(* (pc) at a time; every call to the spreadsheet is one step, so that the  *)
(* calls of different sessions interleave and any call may raise.          *)
(* Prices and amounts are whole numbers of the currency's smallest unit.   *)
(* The timestamp column of Invoices is left out: nothing reads it back.    *)
(***************************************************************************)
EXTENDS Integers, Sequences, FiniteSets, TLC

\* ------------------------------------------------------------- bounds
MaxStock == 2
MaxQty == 2
MaxCart == 2
MaxInvoices == 2
MaxSales == 1

\* ------------------------------------------------- program constants
HEADER_ROWS == 1
INVOICE_OFFSET == 1000

Sessions == {1, 2}
Names == {"Gauze", "Tape"}
Customers == {"Walk-in"}
Qtys == 1..MaxQty

VARIABLES
    inventory,      \* Inventory data rows: [name, stock, price]
    invoices,       \* Invoices data rows: [id, cust, total]
    invoice_items,  \* Invoice_Items data rows: [id, item, qty, subtotal]
    cart,           \* cart[s]: st.session_state.cart of session s
    pc,             \* pc[s]: where session s's script is
    loc,            \* loc[s]: the locals of the handler session s is running
    msg,            \* msg[s]: what the last run of session s's script shows
    rendered,       \* rendered[s]: the arguments of the last create_pdf call
    pre,            \* history: the store when session s's checkout began
    hist            \* history: counts of checkouts by outcome

vars == <<inventory, invoices, invoice_items, cart, pc, loc, msg, rendered, pre, hist>>

store == <<inventory, invoices, invoice_items>>

\* ------------------------------------------------------------ helpers
NoLoc == [op |-> "none"]
NoMsg == [kind |-> "none"]
NoDoc == [id |-> 0]
NoPre == [at |-> "none"]

RECURSIVE SumSeq(_)
SumSeq(q) == IF q = <<>> THEN 0 ELSE Head(q) + SumSeq(Tail(q))

ItemNames(df) == {df[i].name : i \in DOMAIN df}

\* df.index[df['Item Name'] == name].tolist()[0], as a 1-based data row
FirstIndex(df, name) ==
    CHOOSE i \in DOMAIN df :
        /\ df[i].name = name
        /\ \A j \in DOMAIN df : j < i => df[j].name # name

\* df.loc[df['Item Name'] == name, 'Stock Qty'].values[0]
StockOf(df, name) == df[FirstIndex(df, name)].stock

\* df.loc[df['Item Name'] == name, 'Unit Price'].values[0]
PriceOf(df, name) == df[FirstIndex(df, name)].price

\* the sheet row of the first match: 0-based index + 2
RowIdx(df, name) == FirstIndex(df, name) + HEADER_ROWS

\* a sheet row whose cells were never written reads as empty cells
BlankRow == [name |-> "", stock |-> 0, price |-> 0]

\* ws.update_cell(row_idx, col, value) on the Inventory sheet
UpdateCell(sheet, row_idx, col, value) ==
    LET r == row_idx - HEADER_ROWS
        padded == [i \in 1..(IF r > Len(sheet) THEN r ELSE Len(sheet)) |->
                      IF i <= Len(sheet) THEN sheet[i] ELSE BlankRow]
    IN  IF col = 2 THEN [padded EXCEPT ![r].stock = value]
                   ELSE [padded EXCEPT ![r].price = value]

\* {'item': item, 'qty': int(qty), 'price': price, 'subtotal': float(qty*price)}
CartLine(item, qty, price) ==
    [item |-> item, qty |-> qty, price |-> price, subtotal |-> qty * price]

\* mutant: the check refuses a request for exactly the stock
LowStockOrEqual(qty, stock) == qty >= stock

\* qty > stock
LowStock(qty, stock) == qty > stock

\* mutant: the total is computed from the prices the items have now
CartTotalNow(c) ==
    SumSeq([i \in DOMAIN c |->
               IF c[i].item \in ItemNames(inventory)
               THEN c[i].qty * PriceOf(inventory, c[i].item)
               ELSE c[i].subtotal])

\* sum(x['subtotal'] for x in st.session_state.cart)
CartTotal(c) == SumSeq([i \in DOMAIN c |-> c[i].subtotal])

Idle(s) == pc[s] = "idle"

\* a new run of session s's script: what the previous run showed (messages,
\* the download button) is gone
Shown(s, m) ==
    /\ msg' = [msg EXCEPT ![s] = m]
    /\ rendered' = [rendered EXCEPT ![s] = NoDoc]
    /\ pre' = [pre EXCEPT ![s] = NoPre]

\* the text st.error is given, without the exception's own text: the handler
\* of "Confirm & Print" has one except clause for every call of its try, and
\* get_db_connection has its own; the field wrote of msg is history
ErrorShown(m) ==
    CASE m.kind = "Error" -> "An error occurred: "
      [] m.kind = "ConnectionError" -> "Connection Error: "
      [] m.kind = "NotFound" -> "Item not found."
      [] m.kind = "LowStock" -> "Low Stock!"
      [] OTHER -> ""

\* ------------------------------------------------------------ initial
Init ==
    /\ inventory = <<>>
    /\ invoices = <<>>
    /\ invoice_items = <<>>
    /\ cart = [s \in Sessions |-> <<>>]
    /\ pc = [s \in Sessions |-> "idle"]
    /\ loc = [s \in Sessions |-> NoLoc]
    /\ msg = [s \in Sessions |-> NoMsg]
    /\ rendered = [s \in Sessions |-> NoDoc]
    /\ pre = [s \in Sessions |-> NoPre]
    /\ hist = [committed |-> 0, partial |-> 0]

\* ---------------------------------------------------------- New Sale
\* "Add to Cart": the script has just re-read the inventory (get_inventory)
AddToCart(s, item, qty) ==
    /\ Idle(s)
    /\ item \in ItemNames(inventory)
    /\ Len(cart[s]) < MaxCart
    /\ LET stock == StockOf(inventory, item)
           price == PriceOf(inventory, item)
       IN  IF LowStock(qty, stock)
           THEN /\ Shown(s, [kind |-> "LowStock", left |-> stock])
                /\ cart' = cart
           ELSE /\ Shown(s, [kind |-> "Added", item |-> item])
                /\ cart' = [cart EXCEPT ![s] = Append(@, CartLine(item, qty, price))]
    /\ UNCHANGED <<store, pc, loc, hist>>

\* "Clear Cart", shown while the cart is not empty
ClearCart(s) ==
    /\ Idle(s)
    /\ cart[s] # <<>>
    /\ cart' = [cart EXCEPT ![s] = <<>>]
    /\ Shown(s, NoMsg)
    /\ UNCHANGED <<store, pc, loc, hist>>

\* mutant: the id is derived from the row count of Invoice_Items
NextInvoiceIdFromItems(rows) == HEADER_ROWS + Len(invoice_items) + INVOICE_OFFSET

\* len(ws_inv.get_all_values()) + 1000
NextInvoiceId(rows) == HEADER_ROWS + Len(rows) + INVOICE_OFFSET

\* mutant: the button is drawn outside the "if st.session_state.cart" block
CheckoutBeginUngated(s, cust) ==
    /\ Idle(s)
    /\ Len(invoices) < MaxInvoices
    /\ pc' = [pc EXCEPT ![s] = "header"]
    /\ loc' = [loc EXCEPT ![s] = [op |-> "checkout",
                                  total |-> CartTotal(cart[s]),
                                  cust |-> cust,
                                  inv_id |-> NextInvoiceId(invoices)]]
    /\ msg' = [msg EXCEPT ![s] = NoMsg]
    /\ rendered' = [rendered EXCEPT ![s] = NoDoc]
    /\ pre' = [pre EXCEPT ![s] = [at |-> "begin", inventory |-> inventory,
                                  cart |-> cart[s],
                                  nInv |-> Len(invoices),
                                  nItems |-> Len(invoice_items)]]
    /\ UNCHANGED <<store, cart, hist>>

\* the total shown beside the cart, then "Confirm & Print": the connection,
\* the three worksheets and the invoice id are obtained
CheckoutBegin(s, cust) ==
    /\ Idle(s)
    /\ cart[s] # <<>>
    /\ Len(invoices) < MaxInvoices
    /\ pc' = [pc EXCEPT ![s] = "header"]
    /\ loc' = [loc EXCEPT ![s] = [op |-> "checkout",
                                  total |-> CartTotal(cart[s]),
                                  cust |-> cust,
                                  inv_id |-> NextInvoiceId(invoices)]]
    /\ msg' = [msg EXCEPT ![s] = NoMsg]
    /\ rendered' = [rendered EXCEPT ![s] = NoDoc]
    /\ pre' = [pre EXCEPT ![s] = [at |-> "begin", inventory |-> inventory,
                                  cart |-> cart[s],
                                  nInv |-> Len(invoices),
                                  nItems |-> Len(invoice_items)]]
    /\ UNCHANGED <<store, cart, hist>>

\* get_db_connection raises inside its own try: it shows "Connection Error"
\* and st.stop() ends the run before the handler's except clause
CheckoutStopped(s) ==
    /\ Idle(s)
    /\ cart[s] # <<>>
    /\ Shown(s, [kind |-> "ConnectionError"])
    /\ UNCHANGED <<store, cart, pc, loc, hist>>

\* a worksheet lookup or get_all_values raises: the except clause of the
\* handler shows the error; nothing has been written
CheckoutConnFail(s) ==
    /\ Idle(s)
    /\ cart[s] # <<>>
    /\ Shown(s, [kind |-> "Error", wrote |-> FALSE])
    /\ UNCHANGED <<store, cart, pc, loc, hist>>

\* "Confirm & Print" pressed on a page drawn while the cart held lines, the
\* cart now empty: the run skips the block under "if st.session_state.cart"
\* and shows nothing
ConfirmEmpty(s) ==
    /\ Idle(s)
    /\ cart[s] = <<>>
    /\ Shown(s, NoMsg)
    /\ UNCHANGED <<store, cart, pc, loc, hist>>

\* [int(inv_id), cust, ts, float(total)]
HeaderRow(l) == [id |-> l.inv_id, cust |-> l.cust, total |-> l.total]

\* mutant: the id is read again when the header is appended
AppendHeaderFreshId(s) ==
    /\ pc[s] = "header"
    /\ loc' = [loc EXCEPT ![s].inv_id = NextInvoiceId(invoices)]
    /\ invoices' = Append(invoices, HeaderRow(loc'[s]))
    /\ pc' = [pc EXCEPT ![s] = "stock_df"]
    /\ UNCHANGED <<inventory, invoice_items, cart, msg, rendered, pre, hist>>

\* mutant: the header row is not appended before the loop over the cart
AppendHeaderDeferred(s) ==
    /\ pc[s] = "header"
    /\ pc' = [pc EXCEPT ![s] = "stock_df"]
    /\ UNCHANGED <<store, cart, loc, msg, rendered, pre, hist>>

\* ws_inv.append_row(...)
AppendHeader(s) ==
    /\ pc[s] = "header"
    /\ invoices' = Append(invoices, HeaderRow(loc[s]))
    /\ pc' = [pc EXCEPT ![s] = "stock_df"]
    /\ UNCHANGED <<inventory, invoice_items, cart, loc, msg, rendered, pre, hist>>

\* stock_df = pd.DataFrame(ws_stock.get_all_records())
ReadStock(s) ==
    /\ pc[s] = "stock_df"
    /\ loc' = [loc EXCEPT ![s] = [op |-> "checkout", total |-> @.total,
                                  cust |-> @.cust, inv_id |-> @.inv_id,
                                  stock_df |-> inventory, i |-> 1]]
    /\ pc' = [pc EXCEPT ![s] = "update"]
    /\ UNCHANGED <<store, cart, msg, rendered, pre, hist>>

\* mutant: a failure after a write drops the first line of the cart
FailedDropsLine(s, wrote) ==
    /\ pc' = [pc EXCEPT ![s] = "idle"]
    /\ loc' = [loc EXCEPT ![s] = NoLoc]
    /\ msg' = [msg EXCEPT ![s] = [kind |-> "Error", wrote |-> wrote]]
    /\ hist' = IF wrote THEN [hist EXCEPT !.partial = @ + 1] ELSE hist
    /\ cart' = [cart EXCEPT ![s] = IF wrote THEN Tail(@) ELSE @]
    /\ UNCHANGED <<rendered, pre>>

\* the except clause: st.error(...), the cart is left as it is
Failed(s, wrote) ==
    /\ pc' = [pc EXCEPT ![s] = "idle"]
    /\ loc' = [loc EXCEPT ![s] = NoLoc]
    /\ msg' = [msg EXCEPT ![s] = [kind |-> "Error", wrote |-> wrote]]
    /\ hist' = IF wrote THEN [hist EXCEPT !.partial = @ + 1] ELSE hist
    /\ UNCHANGED <<cart, rendered, pre>>

\* mutant: the new stock is clamped at zero
NewStockClamped(curr, qty) == IF curr - qty < 0 THEN 0 ELSE curr - qty

\* int(curr) - int(i['qty'])
NewStock(curr, qty) == curr - qty

\* mutant: a line larger than the stock read is not written; the stock is
\* read again and the line tried again
UpdateStockRereads(s) ==
    /\ pc[s] = "update"
    /\ LET l == loc[s]
           line == cart[s][l.i]
       IN  IF line.item \in ItemNames(l.stock_df)
           THEN IF StockOf(l.stock_df, line.item) < line.qty
                THEN /\ pc' = [pc EXCEPT ![s] = "stock_df"]
                     /\ UNCHANGED <<store, cart, loc, msg, rendered, pre, hist>>
                ELSE /\ inventory' = UpdateCell(inventory, RowIdx(l.stock_df, line.item), 2,
                                                NewStock(StockOf(l.stock_df, line.item), line.qty))
                     /\ pc' = [pc EXCEPT ![s] = "item"]
                     /\ UNCHANGED <<invoices, invoice_items, cart, loc, msg, rendered, pre, hist>>
           ELSE /\ Failed(s, TRUE)
                /\ UNCHANGED store

\* row_idx and curr from stock_df, then ws_stock.update_cell(row_idx, 2, ...);
\* a cart item that stock_df does not hold raises (tolist()[0])
UpdateStock(s) ==
    /\ pc[s] = "update"
    /\ LET l == loc[s]
           line == cart[s][l.i]
       IN  IF line.item \in ItemNames(l.stock_df)
           THEN /\ inventory' = UpdateCell(inventory, RowIdx(l.stock_df, line.item), 2,
                                           NewStock(StockOf(l.stock_df, line.item), line.qty))
                /\ pc' = [pc EXCEPT ![s] = "item"]
                /\ UNCHANGED <<invoices, invoice_items, cart, loc, msg, rendered, pre, hist>>
           ELSE /\ Failed(s, TRUE)
                /\ UNCHANGED store

\* mutant: the row carries the unit price in place of the subtotal
ItemRowUnitPrice(inv_id, line) ==
    [id |-> inv_id, item |-> line.item, qty |-> line.qty, subtotal |-> line.price]

\* [int(inv_id), i['item'], int(i['qty']), float(i['subtotal'])]
ItemRow(inv_id, line) ==
    [id |-> inv_id, item |-> line.item, qty |-> line.qty, subtotal |-> line.subtotal]

\* mutant: a line that already has a row in Invoice_Items gets no second one
AppendItemOnce(s) ==
    /\ pc[s] = "item"
    /\ LET l == loc[s]
           line == cart[s][l.i]
       IN  /\ invoice_items' =
                  IF \E k \in DOMAIN invoice_items :
                         /\ invoice_items[k].item = line.item
                         /\ invoice_items[k].qty = line.qty
                  THEN invoice_items
                  ELSE Append(invoice_items, ItemRow(l.inv_id, line))
           /\ loc' = [loc EXCEPT ![s].i = @ + 1]
           /\ pc' = [pc EXCEPT ![s] = IF l.i < Len(cart[s]) THEN "update" ELSE "pdf"]
    /\ UNCHANGED <<inventory, invoices, cart, msg, rendered, pre, hist>>

\* ws_items.append_row(...), then the next cart line or the document
AppendItem(s) ==
    /\ pc[s] = "item"
    /\ LET l == loc[s]
       IN  /\ invoice_items' = Append(invoice_items, ItemRow(l.inv_id, cart[s][l.i]))
           /\ loc' = [loc EXCEPT ![s].i = @ + 1]
           /\ pc' = [pc EXCEPT ![s] = IF l.i < Len(cart[s]) THEN "update" ELSE "pdf"]
    /\ UNCHANGED <<inventory, invoices, cart, msg, rendered, pre, hist>>

\* create_pdf(inv_id, cust, ts, st.session_state.cart, total), the download
\* button, st.success and st.session_state.cart = []
ClearedCart == <<>>

RenderPdf(s) ==
    /\ pc[s] = "pdf"
    /\ rendered' = [rendered EXCEPT ![s] = [id |-> loc[s].inv_id, cust |-> loc[s].cust,
                                            items |-> cart[s], total |-> loc[s].total]]
    /\ cart' = [cart EXCEPT ![s] = ClearedCart]
    /\ msg' = [msg EXCEPT ![s] = [kind |-> "Success"]]
    /\ pc' = [pc EXCEPT ![s] = "idle"]
    /\ loc' = [loc EXCEPT ![s] = NoLoc]
    /\ hist' = [hist EXCEPT !.committed = @ + 1]
    /\ UNCHANGED <<store, pre>>

\* mutant: a failure removes the header row the checkout appended
CheckoutFailRollback(s) ==
    /\ pc[s] \in {"header", "stock_df", "update", "item", "pdf"}
    /\ Failed(s, pc[s] # "header")
    /\ invoices' = IF pc[s] # "header"
                   THEN SubSeq(invoices, 1, Len(invoices) - 1)
                   ELSE invoices
    /\ UNCHANGED <<inventory, invoice_items>>

\* the call a checkout is about to make raises
CheckoutFail(s) ==
    /\ pc[s] \in {"header", "stock_df", "update", "item", "pdf"}
    /\ Failed(s, pc[s] # "header")
    /\ UNCHANGED store

\* --------------------------------------------------------- Inventory
\* mutant: the quantity typed replaces the stock
RestockReadReplaces(s, name, qty, price) ==
    /\ Idle(s)
    /\ IF name \in ItemNames(inventory)
       THEN /\ StockOf(inventory, name) + qty <= MaxStock
            /\ loc' = [loc EXCEPT ![s] = [op |-> "restock", name |-> name,
                                          row_idx |-> RowIdx(inventory, name),
                                          new_qty |-> qty,
                                          price |-> price]]
            /\ pc' = [pc EXCEPT ![s] = "r_qty"]
       ELSE /\ qty <= MaxStock
            /\ loc' = [loc EXCEPT ![s] = [op |-> "restock", name |-> name,
                                          qty |-> qty, price |-> price]]
            /\ pc' = [pc EXCEPT ![s] = "r_append"]
    /\ Shown(s, NoMsg)
    /\ UNCHANGED <<store, cart, hist>>

\* add_or_update_item: data = ws.get_all_records()
RestockRead(s, name, qty, price) ==
    /\ Idle(s)
    /\ IF name \in ItemNames(inventory)
       THEN /\ StockOf(inventory, name) + qty <= MaxStock
            /\ loc' = [loc EXCEPT ![s] = [op |-> "restock", name |-> name,
                                          row_idx |-> RowIdx(inventory, name),
                                          new_qty |-> StockOf(inventory, name) + qty,
                                          price |-> price]]
            /\ pc' = [pc EXCEPT ![s] = "r_qty"]
       ELSE /\ qty <= MaxStock
            /\ loc' = [loc EXCEPT ![s] = [op |-> "restock", name |-> name,
                                          qty |-> qty, price |-> price]]
            /\ pc' = [pc EXCEPT ![s] = "r_append"]
    /\ Shown(s, NoMsg)
    /\ UNCHANGED <<store, cart, hist>>

\* ws.update_cell(row_idx, 2, new_qty)
RestockQty(s) ==
    /\ pc[s] = "r_qty"
    /\ inventory' = UpdateCell(inventory, loc[s].row_idx, 2, loc[s].new_qty)
    /\ pc' = [pc EXCEPT ![s] = "r_price"]
    /\ UNCHANGED <<invoices, invoice_items, cart, loc, msg, rendered, pre, hist>>

\* ws.update_cell(row_idx, 3, float(price)), st.success
RestockPrice(s) ==
    /\ pc[s] = "r_price"
    /\ inventory' = UpdateCell(inventory, loc[s].row_idx, 3, loc[s].price)
    /\ pc' = [pc EXCEPT ![s] = "idle"]
    /\ msg' = [msg EXCEPT ![s] = [kind |-> "Updated"]]
    /\ loc' = [loc EXCEPT ![s] = NoLoc]
    /\ UNCHANGED <<invoices, invoice_items, cart, rendered, pre, hist>>

\* ws.append_row([name, int(qty), float(price)]), st.success
RestockAppend(s) ==
    /\ pc[s] = "r_append"
    /\ inventory' = Append(inventory, [name |-> loc[s].name, stock |-> loc[s].qty,
                                       price |-> loc[s].price])
    /\ pc' = [pc EXCEPT ![s] = "idle"]
    /\ msg' = [msg EXCEPT ![s] = [kind |-> "Created"]]
    /\ loc' = [loc EXCEPT ![s] = NoLoc]
    /\ UNCHANGED <<invoices, invoice_items, cart, rendered, pre, hist>>

\* a call of add_or_update_item raises: nothing catches it, the run ends
RestockFail(s) ==
    /\ pc[s] \in {"r_qty", "r_price", "r_append"}
    /\ pc' = [pc EXCEPT ![s] = "idle"]
    /\ msg' = [msg EXCEPT ![s] = [kind |-> "Exception"]]
    /\ loc' = [loc EXCEPT ![s] = NoLoc]
    /\ UNCHANGED <<store, cart, rendered, pre, hist>>

\* the text of every cell of the Inventory sheet, header row first
SheetCells(sheet) ==
    <<<<"Item Name", "Stock Qty", "Unit Price">>>> \o
    [i \in DOMAIN sheet |->
        <<sheet[i].name, ToString(sheet[i].stock), ToString(sheet[i].price)>>]

\* ws.find(name).row: the first sheet row with a cell whose text is name
\* (0: no cell matches)
Find(sheet, name) ==
    LET cells == SheetCells(sheet)
        hits == {r \in DOMAIN cells : \E c \in DOMAIN cells[r] : cells[r][c] = name}
    IN  IF hits = {} THEN 0 ELSE CHOOSE r \in hits : \A q \in hits : r <= q

\* ws.delete_rows(row) on the data rows
DeleteRows(sheet, row_idx) ==
    LET r == row_idx - HEADER_ROWS
    IN  IF r \in DOMAIN sheet
        THEN [i \in 1..(Len(sheet) - 1) |-> IF i < r THEN sheet[i] ELSE sheet[i + 1]]
        ELSE sheet

\* delete_item: cell = ws.find(name); no match ends in the except clause
DeleteFind(s, name) ==
    /\ Idle(s)
    /\ IF Find(inventory, name) = 0
       THEN /\ Shown(s, [kind |-> "NotFound"])
            /\ UNCHANGED <<pc, loc>>
       ELSE /\ Shown(s, NoMsg)
            /\ pc' = [pc EXCEPT ![s] = "d_rows"]
            /\ loc' = [loc EXCEPT ![s] = [op |-> "delete", name |-> name,
                                          row |-> Find(inventory, name)]]
    /\ UNCHANGED <<store, cart, hist>>

\* ws.delete_rows(cell.row), st.success
DeleteItem(s) ==
    /\ pc[s] = "d_rows"
    /\ inventory' = DeleteRows(inventory, loc[s].row)
    /\ pc' = [pc EXCEPT ![s] = "idle"]
    /\ msg' = [msg EXCEPT ![s] = [kind |-> "Deleted"]]
    /\ loc' = [loc EXCEPT ![s] = NoLoc]
    /\ UNCHANGED <<invoices, invoice_items, cart, rendered, pre, hist>>

\* ws.delete_rows raises: the bare except reports "Item not found."
DeleteFail(s) ==
    /\ pc[s] = "d_rows"
    /\ pc' = [pc EXCEPT ![s] = "idle"]
    /\ msg' = [msg EXCEPT ![s] = [kind |-> "NotFound"]]
    /\ loc' = [loc EXCEPT ![s] = NoLoc]
    /\ UNCHANGED <<store, cart, rendered, pre, hist>>

\* ------------------------------------------------------ specifications
\* the prices a restock of name is given
PricesOf(name) == IF name = "Gauze" THEN {5, 7} ELSE {3}

\* the Inventory tab of session s, for the item names it types
Catalog(s, names) ==
    \/ \E name \in names, qty \in Qtys :
           \E price \in PricesOf(name) : RestockRead(s, name, qty, price)
    \/ RestockQty(s)
    \/ RestockPrice(s)
    \/ RestockAppend(s)
    \/ RestockFail(s)
    \/ \E name \in names : DeleteFind(s, name)
    \/ DeleteItem(s)
    \/ DeleteFail(s)

\* the cart of session s
Cart(s) ==
    \/ \E item \in Names, qty \in Qtys : AddToCart(s, item, qty)
    \/ ClearCart(s)

\* the steps of a checkout of session s once it has begun
Commit(s) ==
    \/ AppendHeader(s)
    \/ ReadStock(s)
    \/ UpdateStock(s)
    \/ AppendItem(s)
    \/ RenderPdf(s)
    \/ CheckoutFail(s)

\* "Confirm & Print"
Confirm(s) ==
    \/ \E cust \in Customers : CheckoutBegin(s, cust)
    \/ CheckoutStopped(s)
    \/ CheckoutConnFail(s)
    \/ ConfirmEmpty(s)

CommitPcs == {"header", "stock_df", "update", "item", "pdf"}

\* Spec: one session, no concurrent writer, the whole catalogue; a checkout
\* begins while Invoices holds fewer than MaxSales rows
Next ==
    \/ Catalog(1, Names)
    \/ Cart(1)
    \/ Len(invoices) < MaxSales /\ Confirm(1)
    \/ Commit(1)

Spec == Init /\ [][Next]_vars

\* SpecRetry: one session, one item, checkouts retried after a failure
NextRetry ==
    \/ Catalog(1, {"Tape"})
    \/ Cart(1)
    \/ Confirm(1)
    \/ Commit(1)

SpecRetry == Init /\ [][NextRetry]_vars

\* a store holding one stocked item, as restocking leaves it
InitConc ==
    /\ \E stock \in 1..MaxStock :
           inventory = <<[name |-> "Tape", stock |-> stock, price |-> 3]>>
    /\ invoices = <<>>
    /\ invoice_items = <<>>
    /\ cart = [s \in Sessions |-> <<>>]
    /\ pc = [s \in Sessions |-> "idle"]
    /\ loc = [s \in Sessions |-> NoLoc]
    /\ msg = [s \in Sessions |-> NoMsg]
    /\ rendered = [s \in Sessions |-> NoDoc]
    /\ pre = [s \in Sessions |-> NoPre]
    /\ hist = [committed |-> 0, partial |-> 0]

\* SpecSerial: two sessions selling one stocked item, their handlers not
\* overlapping in time; any call of a checkout may raise
Alone(s) == \A t \in Sessions \ {s} : Idle(t)

NextSerial ==
    \E s \in Sessions :
        \/ Alone(s) /\ Cart(s)
        \/ Alone(s) /\ Confirm(s)
        \/ Alone(s) /\ AppendHeader(s)
        \/ Alone(s) /\ ReadStock(s)
        \/ Alone(s) /\ UpdateStock(s)
        \/ Alone(s) /\ AppendItem(s)
        \/ Alone(s) /\ RenderPdf(s)
        \/ Alone(s) /\ CheckoutFail(s)

SpecSerial == InitConc /\ [][NextSerial]_vars

\* SpecConc: two sessions selling one stocked item, their calls interleaved,
\* no call raising
NextConc ==
    \E s \in Sessions :
        \/ Cart(s)
        \/ \E cust \in Customers : CheckoutBegin(s, cust)
        \/ AppendHeader(s)
        \/ ReadStock(s)
        \/ UpdateStock(s)
        \/ AppendItem(s)
        \/ RenderPdf(s)

SpecConc == InitConc /\ [][NextConc]_vars

\* texts delete_item may be given that are no item's name but the text of a
\* cell written by restock (the price of "Tape")
CellTexts == {"3"}

\* SpecCatalog: one session restocking and deleting, nothing sold
NextCatalog ==
    \/ Catalog(1, Names)
    \/ \E name \in CellTexts : DeleteFind(1, name)

SpecCatalog == Init /\ [][NextCatalog]_vars

\* the Restock form of session s
Restock(s, names) ==
    \/ \E name \in names, qty \in Qtys :
           \E price \in PricesOf(name) : RestockRead(s, name, qty, price)
    \/ RestockQty(s)
    \/ RestockPrice(s)
    \/ RestockAppend(s)
    \/ RestockFail(s)

\* SpecRestock: two sessions restocking, their calls interleaved
NextRestock == \E s \in Sessions : Restock(s, Names)

SpecRestock == Init /\ [][NextRestock]_vars

\* a store holding MaxStock units of one item
InitOnce ==
    /\ inventory = <<[name |-> "Tape", stock |-> MaxStock, price |-> 3]>>
    /\ invoices = <<>>
    /\ invoice_items = <<>>
    /\ cart = [s \in Sessions |-> <<>>]
    /\ pc = [s \in Sessions |-> "idle"]
    /\ loc = [s \in Sessions |-> NoLoc]
    /\ msg = [s \in Sessions |-> NoMsg]
    /\ rendered = [s \in Sessions |-> NoDoc]
    /\ pre = [s \in Sessions |-> NoPre]
    /\ hist = [committed |-> 0, partial |-> 0]

\* no checkout has been attempted yet
Fresh ==
    /\ invoices = <<>>
    /\ hist.committed = 0
    /\ msg[1].kind \notin {"Error", "ConnectionError"}

\* SpecOnce: one session builds one cart, then presses "Confirm & Print"
\* again after every failure, the cart left as it is, until a checkout
\* succeeds; any call of a checkout may raise
NextOnce ==
    \/ \E qty \in Qtys : Fresh /\ AddToCart(1, "Tape", qty)
    \/ \E cust \in Customers : hist.committed = 0 /\ CheckoutBegin(1, cust)
    \/ hist.committed = 0 /\ CheckoutStopped(1)
    \/ hist.committed = 0 /\ CheckoutConnFail(1)
    \/ Commit(1)

SpecOnce == InitOnce /\ [][NextOnce]_vars

\* a store holding two stocked items, as restocking leaves it
InitStale ==
    /\ inventory = <<[name |-> "Gauze", stock |-> 1, price |-> 5],
                     [name |-> "Tape", stock |-> 1, price |-> 3]>>
    /\ invoices = <<>>
    /\ invoice_items = <<>>
    /\ cart = [s \in Sessions |-> <<>>]
    /\ pc = [s \in Sessions |-> "idle"]
    /\ loc = [s \in Sessions |-> NoLoc]
    /\ msg = [s \in Sessions |-> NoMsg]
    /\ rendered = [s \in Sessions |-> NoDoc]
    /\ pre = [s \in Sessions |-> NoPre]
    /\ hist = [committed |-> 0, partial |-> 0]

\* SpecStale: session 1 sells (one checkout) and restocks the items the
\* sheet holds while session 2 deletes items, their calls interleaved, no
\* call raising
NextStale ==
    \/ \E item \in Names, qty \in Qtys : AddToCart(1, item, qty)
    \/ \E cust \in Customers : Len(invoices) < MaxSales /\ CheckoutBegin(1, cust)
    \/ AppendHeader(1)
    \/ ReadStock(1)
    \/ UpdateStock(1)
    \/ AppendItem(1)
    \/ RenderPdf(1)
    \/ \E name \in Names, qty \in Qtys :
           \E price \in PricesOf(name) :
               name \in ItemNames(inventory) /\ RestockRead(1, name, qty, price)
    \/ RestockQty(1)
    \/ RestockPrice(1)
    \/ \E name \in Names : DeleteFind(2, name)
    \/ DeleteItem(2)

SpecStale == InitStale /\ [][NextStale]_vars

\* SpecLive: two sessions selling one stocked item, their calls interleaved;
\* session 1 fills carts of up to MaxCart lines, session 2 carts of one
\* line.  Every call of a checkout returns, with a result or by raising: a
\* checkout that has begun takes its next step (weak fairness on Commit).
NextLive ==
    \E s \in Sessions :
        \/ \E qty \in Qtys : (s = 1 \/ cart[s] = <<>>) /\ AddToCart(s, "Tape", qty)
        \/ \E cust \in Customers : CheckoutBegin(s, cust)
        \/ Commit(s)

Returns == \A s \in Sessions : WF_vars(Commit(s))

SpecLive == InitConc /\ [][NextLive]_vars /\ Returns

\* ------------------------------------------------------------- claims
\* the quantity of item x in a sequence of cart lines or Invoice_Items rows
QtyOf(rows, x) == SumSeq([i \in DOMAIN rows |-> IF rows[i].item = x THEN rows[i].qty ELSE 0])

LineItems(rows) == {rows[i].item : i \in DOMAIN rows}

Succeeded(s) == msg[s].kind = "Success"

\* C1: right after a successful checkout (one session), the stock of every
\* item of the cart is its stock when the checkout began minus the total
\* quantity of the cart's lines for that item.
C1_StockAfterCheckout ==
    Succeeded(1) =>
        \A x \in LineItems(rendered[1].items) :
            StockOf(inventory, x) = StockOf(pre[1].inventory, x) - QtyOf(rendered[1].items, x)

\* C2: once a checkout has succeeded (one session; restock, delete, add,
\* clear, failed and retried checkouts), no Inventory row has a negative
\* stock.
C2_StockNeverNegative ==
    hist.committed >= 1 => \A i \in DOMAIN inventory : inventory[i].stock >= 0

\* C3: a checkout whose every step succeeds leaves the cart empty; one that
\* fails at any step leaves the cart exactly as it was when the checkout
\* began, and removes none of the rows written so far.
C3_CartAfterCheckout ==
    [][\A s \in Sessions :
          /\ RenderPdf(s) => cart'[s] = <<>>
          /\ (CheckoutFail(s) \/ (UpdateStock(s) /\ pc'[s] = "idle")) =>
                /\ msg'[s].kind = "Error"
                /\ cart'[s] = pre[s].cart
                /\ cart'[s] # <<>>
                /\ store' = store
          /\ CheckoutConnFail(s) => cart'[s] = cart[s] /\ store' = store
          /\ (pc[s] \in CommitPcs /\ pc'[s] \in CommitPcs) => cart'[s] = pre[s].cart
      ]_vars

\* a checkout failed between the two lines of its cart: the header, one stock
\* write and one line item are written, the cart still holds both lines
C3_Witness ==
    /\ msg[1] = [kind |-> "Error", wrote |-> TRUE]
    /\ Len(cart[1]) = 2
    /\ Len(invoices) = 1
    /\ Len(invoice_items) = 1

\* C4: right after a successful checkout of a cart of n lines (one session),
\* Invoices has one more row and Invoice_Items n more rows than when the
\* checkout began, all with the same invoice id; the i-th new Invoice_Items
\* row has the item, quantity and subtotal of the i-th cart line; and the
\* lines handed to create_pdf are the cart's lines in their order.
C4_RowsOfCheckout ==
    Succeeded(1) =>
        LET d == rendered[1]
            n == Len(pre[1].cart)
        IN  /\ d.items = pre[1].cart
            /\ Len(invoices) = pre[1].nInv + 1
            /\ Len(invoice_items) = pre[1].nItems + n
            /\ invoices[pre[1].nInv + 1].id = d.id
            /\ \A i \in 1..n :
                  LET row == invoice_items[pre[1].nItems + i]
                  IN  /\ row.id = d.id
                      /\ row.item = pre[1].cart[i].item
                      /\ row.qty = pre[1].cart[i].qty
                      /\ row.subtotal = pre[1].cart[i].subtotal

\* a checkout of two lines for different items has succeeded
C4_Witness ==
    /\ Succeeded(1)
    /\ Len(rendered[1].items) = 2
    /\ rendered[1].items[1].item # rendered[1].items[2].item

\* qty x unit price of every line, summed
SumAtAddPrices(c) == SumSeq([i \in DOMAIN c |-> c[i].qty * c[i].price])

\* C5: a line added to the cart carries the price the item has at that moment
\* and qty x that price as its subtotal; no restock changes a cart; the cart
\* total is the sum of qty x price over the lines as they were added; and
\* after a successful checkout the total of the Invoices row and the total
\* handed to create_pdf are that same sum.
C5_TotalAtAddPrices ==
    [][\A s \in Sessions :
          /\ \A item \in Names, qty \in Qtys :
                (AddToCart(s, item, qty) /\ cart'[s] # cart[s]) =>
                    LET line == cart'[s][Len(cart'[s])]
                    IN  /\ line.price = PriceOf(inventory, item)
                        /\ line.subtotal = qty * PriceOf(inventory, item)
          /\ (pc[s] \in {"r_qty", "r_price", "r_append"}) => cart'[s] = cart[s]
          /\ CartTotal(cart'[s]) = SumAtAddPrices(cart'[s])
          /\ RenderPdf(s) =>
                /\ rendered'[s].total = SumAtAddPrices(cart[s])
                /\ invoices'[pre[s].nInv + 1].total = SumAtAddPrices(cart[s])
      ]_vars

\* a checkout has succeeded with a line whose price is not the price the item
\* has now: it was restocked at another price after the line was added
C5_Witness ==
    /\ Succeeded(1)
    /\ \E i \in DOMAIN rendered[1].items :
          LET line == rendered[1].items[i]
          IN  /\ line.item \in ItemNames(inventory)
              /\ PriceOf(inventory, line.item) # line.price
              /\ line.qty = 2

AllIdle == \A s \in Sessions : Idle(s)

\* C6 as stated: whenever no checkout is running, Invoices has as many rows as
\* checkouts have succeeded.
C6_HeadersAreSuccesses ==
    AllIdle => Len(invoices) = hist.committed

\* the sessions whose running checkout has appended its header
HeaderWritten == {s \in Sessions : pc[s] \in CommitPcs \ {"header"}}

\* C6 amended: Invoices has one row for every checkout that succeeded, one for
\* every checkout that failed after its header was appended and one for every
\* running checkout past its header append; a checkout that fails before the
\* header append leaves none.
C6_HeadersAreAttempts ==
    Len(invoices) = hist.committed + hist.partial + Cardinality(HeaderWritten)

\* a failed checkout has left a header behind and a later one has succeeded
C6_Witness ==
    /\ AllIdle
    /\ hist.partial = 1
    /\ hist.committed = 1
    /\ Len(invoices) = 2

\* C10: Add to Cart of qty >= 1 shows "Low Stock! Only <stock> left." exactly
\* when qty exceeds the stock just read; then the cart is unchanged; otherwise
\* one line {item, qty, the price just read, qty x price} is appended at the
\* end of the cart; either way the three worksheets are unchanged.
C10_AddToCart ==
    [][\A s \in Sessions : \A item \in Names, qty \in Qtys :
          AddToCart(s, item, qty) =>
              /\ store' = store
              /\ IF qty > StockOf(inventory, item)
                 THEN /\ msg'[s] = [kind |-> "LowStock", left |-> StockOf(inventory, item)]
                      /\ cart'[s] = cart[s]
                 ELSE /\ msg'[s].kind = "Added"
                      /\ cart'[s] = cart[s] \o
                            <<[item |-> item, qty |-> qty,
                               price |-> PriceOf(inventory, item),
                               subtotal |-> qty * PriceOf(inventory, item)]>>
      ]_vars

\* a request for more than the one unit in stock was refused with a line
\* already in the cart
C10_Witness ==
    /\ msg[1] = [kind |-> "LowStock", left |-> 1]
    /\ Len(cart[1]) = 1

\* C7: when checkouts do not overlap in time, the invoice id a checkout holds
\* is 1000 plus the number of rows (header row included) the Invoices sheet
\* had when the checkout began, and the ids of the Invoices rows are strictly
\* increasing in append order, hence pairwise distinct, whether or not the
\* checkouts that appended them failed later.
C7_InvoiceIdsIncrease ==
    /\ \A s \in Sessions :
          pc[s] \in CommitPcs =>
              loc[s].inv_id = INVOICE_OFFSET + (HEADER_ROWS + pre[s].nInv)
    /\ \A i \in DOMAIN invoices :
          invoices[i].id = INVOICE_OFFSET + (HEADER_ROWS + (i - 1))
    /\ \A i, j \in DOMAIN invoices : i < j => invoices[i].id < invoices[j].id

\* session 1's checkout failed after its header, then session 2's succeeded
C7_Witness ==
    /\ msg[1] = [kind |-> "Error", wrote |-> TRUE]
    /\ Succeeded(2)
    /\ Len(invoices) = 2
    /\ hist.partial = 1

\* C8: the stock check of Add to Cart reserves nothing (it reads the current
\* stock only and writes no sheet), and every stock write of a checkout sets
\* the item's stock to the stock of the checkout's own earlier read minus the
\* line's quantity, without validating it again; so two sessions can both
\* sell what only one of them could (C8_Witness).
C8_AdvisoryStockCheck ==
    [][\A s \in Sessions :
          /\ \A item \in Names, qty \in Qtys :
                AddToCart(s, item, qty) =>
                    /\ inventory' = inventory
                    /\ (cart'[s] # cart[s]) <=> (qty <= StockOf(inventory, item))
          /\ UpdateStock(s) =>
                LET line == cart[s][loc[s].i]
                IN  StockOf(inventory', line.item) =
                        StockOf(loc[s].stock_df, line.item) - line.qty
      ]_vars

\* both sessions' checkouts have succeeded, no call having raised, and the
\* item's stock is negative or more of it is sold than was in stock when the
\* first of the two checkouts began
C8_Witness ==
    /\ Succeeded(1)
    /\ Succeeded(2)
    /\ LET before == IF pre[1].nInv <= pre[2].nInv
                     THEN StockOf(pre[1].inventory, "Tape")
                     ELSE StockOf(pre[2].inventory, "Tape")
       IN  /\ \A s \in Sessions : \A i \in DOMAIN rendered[s].items :
                 rendered[s].items[i].qty <= before
           /\ \/ StockOf(inventory, "Tape") < 0
              \/ QtyOf(invoice_items, "Tape") > before

\* the rows of Invoice_Items with invoice id k
ItemsOf(k) == {i \in DOMAIN invoice_items : invoice_items[i].id = k}

\* C9: when two sessions' checkouts both obtained their invoice id from the
\* same row count (each before the other appended its header) and both
\* succeeded, the two Invoices rows they appended carry the same id, and so
\* do the Invoice_Items rows of both sales.
C9_DuplicateInvoiceId ==
    \A s, t \in Sessions :
        (s # t /\ Succeeded(s) /\ Succeeded(t) /\ pre[s].nInv = pre[t].nInv) =>
            LET n == pre[s].nInv
            IN  /\ rendered[s].id = rendered[t].id
                /\ invoices[n + 1].id = rendered[s].id
                /\ invoices[n + 2].id = rendered[s].id
                /\ Cardinality(ItemsOf(rendered[s].id)) =
                       Len(rendered[s].items) + Len(rendered[t].items)

\* two sales of different carts have succeeded under one invoice id
C9_Witness ==
    /\ Succeeded(1)
    /\ Succeeded(2)
    /\ pre[1].nInv = pre[2].nInv
    /\ rendered[1].items # rendered[2].items
    /\ Len(invoices) = 2
    /\ invoices[1].id = invoices[2].id
    /\ Cardinality(ItemsOf(invoices[1].id)) = Len(invoice_items)

AllPrices == UNION {PricesOf(name) : name \in Names}

\* the data rows of sheet named name
RowsNamed(sheet, name) == {i \in DOMAIN sheet : sheet[i].name = name}

\* C12: in one session, a restock of (name, qty, price) with qty >= 1 whose
\* calls all return: when a row named name exists (there is exactly one), its
\* stock becomes its old stock + qty and its price becomes price, and the
\* number of rows stays; when none exists, one row {name, qty, price} is
\* appended; every other row, Invoices and Invoice_Items stay as they were.
C12_Restock ==
    /\ [](\A s \in Sessions :
              /\ pc[s] = "r_qty" =>
                    \E i \in RowsNamed(inventory, loc[s].name) :
                        /\ RowsNamed(inventory, loc[s].name) = {i}
                        /\ loc[s].row_idx = i + HEADER_ROWS
                        /\ loc[s].new_qty - inventory[i].stock \in Qtys
              /\ pc[s] = "r_price" =>
                    \E i \in RowsNamed(inventory, loc[s].name) :
                        /\ RowsNamed(inventory, loc[s].name) = {i}
                        /\ inventory[i].stock = loc[s].new_qty
              /\ pc[s] = "r_append" => RowsNamed(inventory, loc[s].name) = {})
    /\ [][\A s \in Sessions :
              /\ \A name \in Names, qty \in Qtys, price \in AllPrices :
                    RestockRead(s, name, qty, price) =>
                        /\ store' = store
                        /\ loc'[s].name = name
                        /\ loc'[s].price = price
                        /\ IF name \in ItemNames(inventory)
                           THEN /\ pc'[s] = "r_qty"
                                /\ \E i \in RowsNamed(inventory, name) :
                                       loc'[s].new_qty = inventory[i].stock + qty
                           ELSE /\ pc'[s] = "r_append"
                                /\ loc'[s].qty = qty
              /\ RestockQty(s) =>
                    /\ inventory' = [i \in DOMAIN inventory |->
                           IF inventory[i].name = loc[s].name
                           THEN [inventory[i] EXCEPT !.stock = loc[s].new_qty]
                           ELSE inventory[i]]
                    /\ invoices' = invoices /\ invoice_items' = invoice_items
              /\ RestockPrice(s) =>
                    /\ inventory' = [i \in DOMAIN inventory |->
                           IF inventory[i].name = loc[s].name
                           THEN [inventory[i] EXCEPT !.price = loc[s].price]
                           ELSE inventory[i]]
                    /\ invoices' = invoices /\ invoice_items' = invoice_items
                    /\ msg'[s].kind = "Updated"
              /\ RestockAppend(s) =>
                    /\ inventory' = inventory \o
                           <<[name |-> loc[s].name, stock |-> loc[s].qty,
                              price |-> loc[s].price]>>
                    /\ invoices' = invoices /\ invoice_items' = invoice_items
                    /\ msg'[s].kind = "Created"
       ]_vars

\* "Gauze", created after "Tape" with one unit, was restocked with one more
\* at the price 7: its row holds 2 at 7 and the row of "Tape" is as it was
C12_Witness ==
    /\ msg[1].kind = "Updated"
    /\ inventory = <<[name |-> "Tape", stock |-> 1, price |-> 3],
                     [name |-> "Gauze", stock |-> 2, price |-> 7]>>

\* C13: delete_item(name) for a name that no row has as its Item Name shows
\* "Item not found." and leaves the Inventory rows as they are, also when
\* name is the text of another cell; for the name of a row it removes that
\* row and no other.
C13_RemoveItem ==
    [][\A s \in Sessions :
          /\ \A name \in Names \cup CellTexts :
                (DeleteFind(s, name) /\ name \notin ItemNames(inventory)) =>
                    /\ msg'[s].kind = "NotFound"
                    /\ pc'[s] = "idle"
          /\ DeleteItem(s) =>
                /\ Len(inventory') = Len(inventory) - 1
                /\ inventory' = SelectSeq(inventory,
                                          LAMBDA row : row.name # loc[s].name)
      ]_vars

\* a checkout of session s has just failed after a write of its sequence
FailedAfterWrite(s) == msg[s].kind = "Error" /\ msg[s].wrote

\* a checkout of session s has just failed before any write of its sequence
FailedBeforeWrite(s) ==
    \/ msg[s].kind = "ConnectionError"
    \/ msg[s].kind = "Error" /\ ~msg[s].wrote

\* C14: the error shown for a checkout that failed after a write of its
\* sequence differs from the error shown for one that failed before any
\* write.
C14_PartialCommitDistinct ==
    \A s, t \in Sessions :
        (FailedAfterWrite(s) /\ FailedBeforeWrite(t)) =>
            ErrorShown(msg[s]) # ErrorShown(msg[t])

\* C15: no two Inventory rows have the same Item Name, also when two
\* sessions restock the same new name at the same time.
C15_ItemNameUnique ==
    \A i, j \in DOMAIN inventory :
        i # j => inventory[i].name # inventory[j].name

\* the Invoice_Items rows appended since session s's checkout began
ItemsAppended(s) == Len(invoice_items) - pre[s].nItems

\* the stock writes session s's checkout has made, from its place in the
\* loop over the cart
StockWrites(s) ==
    IF pc[s] \in {"header", "stock_df"} THEN 0
    ELSE IF pc[s] = "item" THEN loc[s].i
    ELSE loc[s].i - 1

\* C16: a checkout appends its Invoices row first, then for every cart line,
\* in cart order, writes the stock and after that appends the line's
\* Invoice_Items row.  So in every state, mid-commit and after a failure
\* too, every Invoice_Items row carries the id of an Invoices row, and a
\* running checkout has appended no more Invoice_Items rows than it has made
\* stock writes.
C16_WriteOrder ==
    /\ [](\A i \in DOMAIN invoice_items :
              \E j \in DOMAIN invoices : invoices[j].id = invoice_items[i].id)
    /\ [](\A s \in Sessions :
              pc[s] \in CommitPcs =>
                  /\ ItemsAppended(s) <= StockWrites(s)
                  /\ Len(invoices) = pre[s].nInv + (IF pc[s] = "header" THEN 0 ELSE 1)
                  /\ pc[s] \in {"header", "stock_df"} =>
                        (ItemsAppended(s) = 0 /\ inventory = pre[s].inventory)
                  /\ pc[s] \in {"update", "item", "pdf"} =>
                        ItemsAppended(s) = loc[s].i - 1
                  /\ pc[s] = "item" =>
                        LET line == cart[s][loc[s].i]
                        IN  StockOf(inventory, line.item) =
                                StockOf(loc[s].stock_df, line.item) - line.qty)
    /\ [][\A s \in Sessions :
              /\ AppendHeader(s) =>
                    /\ ItemsAppended(s) = 0
                    /\ inventory = pre[s].inventory
              /\ (UpdateStock(s) /\ pc'[s] = "item") =>
                    /\ \E j \in DOMAIN invoices : invoices[j].id = loc[s].inv_id
                    /\ invoice_items' = invoice_items
                    /\ StockWrites(s)' = StockWrites(s) + 1
              /\ AppendItem(s) =>
                    /\ \E j \in DOMAIN invoices : invoices[j].id = loc[s].inv_id
                    /\ inventory' = inventory
                    /\ invoice_items' = invoice_items \o
                           <<[id |-> loc[s].inv_id,
                              item |-> cart[s][ItemsAppended(s) + 1].item,
                              qty |-> cart[s][ItemsAppended(s) + 1].qty,
                              subtotal |-> cart[s][ItemsAppended(s) + 1].subtotal]>>
                    /\ StockWrites(s)' = StockWrites(s)
       ]_vars

\* mid-commit: the header and the first line's row are appended, the stock
\* write of the second line is made and its row is not appended yet
C16_Witness ==
    /\ pc[1] = "item"
    /\ loc[1].i = 2
    /\ ItemsAppended(1) = 1
    /\ StockWrites(1) = 2
    /\ Len(invoices) = pre[1].nInv + 1

\* the data rows that a step changes or adds
ChangedRows ==
    {i \in DOMAIN inventory' : i \notin DOMAIN inventory \/ inventory'[i] # inventory[i]}

\* the data row a write to sheet row row_idx addresses is a row named name
AddressesRowOf(row_idx, name) ==
    /\ row_idx - HEADER_ROWS \in DOMAIN inventory
    /\ inventory[row_idx - HEADER_ROWS].name = name
    /\ ChangedRows \subseteq {row_idx - HEADER_ROWS}

\* C17: every stock write of a checkout addresses, and changes only, a row
\* whose Item Name is the cart line's item, and every write of a restock a
\* row whose Item Name is the restocked name, also when another session
\* deletes rows between the operation's read of the sheet and its write.
C17_WritesOwnRow ==
    [][\A s \in Sessions :
          /\ (UpdateStock(s) /\ pc'[s] = "item") =>
                AddressesRowOf(RowIdx(loc[s].stock_df, cart[s][loc[s].i].item),
                               cart[s][loc[s].i].item)
          /\ (RestockQty(s) \/ RestockPrice(s)) =>
                AddressesRowOf(loc[s].row_idx, loc[s].name)
      ]_vars

\* the Invoice_Items rows with invoice id k, in append order
RowsOfId(k) == SelectSeq(invoice_items, LAMBDA row : row.id = k)

\* C18 as stated: when a checkout of a cart has failed after a write and the
\* checkout of the same cart, pressed again, has succeeded, Invoice_Items
\* holds exactly one row for every cart line in total, and (for a cart of one
\* line) the line's quantity is subtracted from the stock once in total.
C18_CommittedOnce ==
    (Succeeded(1) /\ hist.partial >= 1) =>
        LET c == rendered[1].items
        IN  /\ Len(invoice_items) = Len(c)
            /\ Len(c) = 1 =>
                  StockOf(inventory, "Tape") = MaxStock - c[1].qty

\* C18 amended: a retry runs the whole sequence again on the store as the
\* failed attempts left it.  After the success, every attempt that appended
\* its header holds, under its own id, the rows of the first lines of the
\* cart it reached (the successful one: of all lines), so Invoice_Items
\* holds the rows left by the failed attempts plus one per cart line; the
\* stock of the last line's item is the stock the successful attempt read
\* minus that line's quantity, and what a failed attempt that reached a row
\* had subtracted stays subtracted.
C18_CommittedPerAttempt ==
    Succeeded(1) =>
        LET c == rendered[1].items
        IN  /\ \A j \in DOMAIN invoices :
                  LET R == RowsOfId(invoices[j].id)
                  IN  /\ Len(R) <= Len(c)
                      /\ \A i \in DOMAIN R :
                            R[i] = [id |-> invoices[j].id, item |-> c[i].item,
                                    qty |-> c[i].qty, subtotal |-> c[i].subtotal]
            /\ Len(RowsOfId(rendered[1].id)) = Len(c)
            /\ Len(invoice_items) = pre[1].nItems + Len(c)
            /\ StockOf(inventory, "Tape") =
                  StockOf(pre[1].inventory, "Tape") - c[Len(c)].qty
            /\ pre[1].nItems > 0 => StockOf(pre[1].inventory, "Tape") < MaxStock

\* a checkout of two lines failed after the row of its first line, and the
\* checkout pressed again succeeded: the first line has two rows
C18_Witness ==
    /\ Succeeded(1)
    /\ hist.partial = 1
    /\ Len(rendered[1].items) = 2
    /\ pre[1].nItems = 1
    /\ Len(invoice_items) = 3
    /\ invoice_items[1].item = invoice_items[2].item
    /\ invoice_items[1].qty = invoice_items[2].qty
    /\ invoice_items[1].id # invoice_items[2].id

\* the number of calls a checkout in progress has behind it: the header
\* append, the read of the stock, then a stock write and a row append for
\* each cart line
Rank(s) ==
    CASE pc[s] = "header" -> 0
      [] pc[s] = "stock_df" -> 1
      [] pc[s] = "update" -> 2 * loc[s].i
      [] pc[s] = "item" -> 2 * loc[s].i + 1
      [] pc[s] = "pdf" -> 2 * loc[s].i
      [] OTHER -> 0

\* C19: when every call returns (with a result or by raising), a checkout
\* that has begun on a non-empty cart ends, with the success message or with
\* the error message.  Until then every step of it either ends it or is the
\* next call of the sequence and no other: the calls made so far grow by
\* one, the header step appends one Invoices row, the step of a line's stock
\* write appends nothing, the step of a line's row appends one Invoice_Items
\* row for that line, the cart is not touched, and the calls made never
\* exceed one header append, one read and two calls per cart line.
C19_CheckoutTerminates ==
    /\ \A s \in Sessions :
           (pc[s] \in CommitPcs) ~> (Idle(s) /\ msg[s].kind \in {"Success", "Error"})
    /\ [][\A s \in Sessions :
             (pc[s] \in CommitPcs /\ pc'[s] # pc[s]) =>
                 \/ Idle(s)' /\ msg'[s].kind \in {"Success", "Error"}
                 \/ /\ pc'[s] \in CommitPcs
                    /\ Rank(s)' = Rank(s) + 1
                    /\ cart'[s] = cart[s]
                    /\ Len(invoices') = Len(invoices) + (IF pc[s] = "header" THEN 1 ELSE 0)
                    /\ Len(invoice_items') =
                           Len(invoice_items) + (IF pc[s] = "item" THEN 1 ELSE 0)
                    /\ pc[s] = "item" =>
                           invoice_items'[Len(invoice_items')].item = cart[s][loc[s].i].item
       ]_vars
    /\ [](\A s \in Sessions :
             pc[s] \in CommitPcs =>
                 /\ cart[s] # <<>>
                 /\ Rank(s) <= 2 * Len(cart[s]) + 2)

\* a checkout of a full cart has ended with the success message after some
\* checkout ended with the error message, while the other session is in
\* the middle of its own
C19_Witness ==
    \E s \in Sessions :
        /\ Succeeded(s)
        /\ Len(rendered[s].items) = MaxCart
        /\ hist.partial > 0
        /\ \E t \in Sessions \ {s} : pc[t] \in CommitPcs
====
